---------------------------- MODULE Spec2Model ----------------------------
(***************************************************************************)
(* Gemini Web Scraper CLI: the terminal interpreter (cli.mjs) and the      *)
(* browser interpreter (components/Terminal.tsx) around                    *)
(* scrapeWithGrounding (services/geminiService.ts).                        *)
(*                                                                         *)
(* Text is modelled as a sequence of atoms: an atom is a non-empty piece   *)
(* of text without white space, or the single space " ".  The empty        *)
(* string is the empty sequence.  An input line is modelled after          *)
(* line.trim().split(' '): its verb (lower-cased) and its argument tokens. *)
(***************************************************************************)
EXTENDS Integers, Sequences, FiniteSets, TLC

VARIABLES
    variant,        \* "cli" (cli.mjs) or "web" (Terminal.tsx)
    phase,          \* "boot" | "up" | "crashed" | "exited"
    sites,          \* state.sites / useState sites
    excludedSites,  \* state.excludedSites / useState excludedSites
    morningQuery,   \* state.morningQuery / useState morningQuery
    file,           \* cli: content of scraper-state.json
    localStorage,   \* web: the three storage keys
    writes,         \* cli: fs.writeFile calls of saveState still in flight
    scrapes,        \* scrapeWithGrounding invocations still in flight
    history,        \* web: HistoryItem[]
    lastOut,        \* cli: what the last completed command printed
    lastScrape,     \* observation of the last ended scrapeWithGrounding
    saved,          \* cli: some saveState write has completed
    writeFailed,    \* cli: some saveState write has failed
    watch,          \* whether lastOut and lastScrape are being recorded
    spinner         \* cli: the setInterval timers of the processing animation

vars == <<variant, phase, sites, excludedSites, morningQuery, file,
          localStorage, writes, scrapes, history, lastOut, lastScrape,
          saved, writeFailed, watch, spinner>>

---------------------------------------------------------------------------
(* Bounds of the model *)

MaxList == 2
MaxArgs == 2
MaxProcs == 2
MaxHist == 2
MaxChunks == 3

(* Program constants *)

MAX_RETRIES == 3
INITIAL_DELAY == 1000
BACKOFF == 2
OVERLOADED == 503

---------------------------------------------------------------------------
(* Text *)

SP == " "

\* a tab, and a token that starts with one: split(' ') cuts at spaces only
TAB == "\t"
Padded == "\ta"

WhiteSpace == {SP, TAB}

Tokens == {"a", "b"}
ExclTokens == {"a"}
QueryTokens == {"q"}

SeqsUpTo(S, n) == UNION {[1..k -> S] : k \in 0..n}

RECURSIVE Join(_, _)
Join(parts, sep) ==
    IF parts = <<>> THEN <<>>
    ELSE IF Len(parts) = 1 THEN Head(parts)
    ELSE Head(parts) \o sep \o Join(Tail(parts), sep)

RECURSIVE TrimStart(_)
TrimStart(s) ==
    IF s # <<>> /\ Head(s) \in WhiteSpace THEN TrimStart(Tail(s)) ELSE s

RECURSIVE TrimEnd(_)
TrimEnd(s) ==
    IF s # <<>> /\ s[Len(s)] \in WhiteSpace
    THEN TrimEnd(SubSeq(s, 1, Len(s) - 1)) ELSE s

Trim(s) == TrimEnd(TrimStart(s))

\* the text of one token
Text(tok) ==
    IF tok = "" THEN <<>> ELSE IF tok = Padded THEN <<TAB, "a">> ELSE <<tok>>

TextOfEach(toks) == [i \in 1..Len(toks) |-> Text(toks[i])]

\* args.join(' ')
JoinArgs(args) == Join(TextOfEach(args), <<SP>>)

Includes(list, s) == \E i \in 1..Len(list) : list[i] = s

Filter(list, s) == SelectSeq(list, LAMBDA x : x # s)

---------------------------------------------------------------------------
(* Session state and its durable copies *)

\* let state = { ..., morningQuery: 'What are the top 3 latest news in technology?' }
DefaultMorningQuery == <<"What are the top 3 latest news in technology?">>

\* a property that is absent from the loaded object
UNDEFINED == <<"<undefined>">>

\* !query
Falsy(text) == text = <<>> \/ text = UNDEFINED

Keys == {"sites", "excludedSites", "morningQuery"}

\* the keys a JSON object holds, as the sequence of those it has among
\* sites, excludedSites, morningQuery
Has(keys) ==
    <<"sites" \in keys, "excludedSites" \in keys, "morningQuery" \in keys>>

MissingFile == [kind |-> "missing", has |-> Has({}), sites |-> <<>>,
                excludedSites |-> <<>>, morningQuery |-> <<>>]

MalformedFile == [kind |-> "malformed", has |-> Has({}), sites |-> <<>>,
                  excludedSites |-> <<>>, morningQuery |-> <<>>]

\* a JSON object holding the given keys
JsonFile(keys, s, e, m) ==
    [kind |-> "json", has |-> Has(keys),
     sites |-> IF "sites" \in keys THEN s ELSE <<>>,
     excludedSites |-> IF "excludedSites" \in keys THEN e ELSE <<>>,
     morningQuery |-> IF "morningQuery" \in keys THEN m ELSE <<>>]

\* JSON.stringify(state, null, 2): a property whose value is undefined is left out
StringifyState(s, e, m) ==
    JsonFile(IF m = UNDEFINED THEN {"sites", "excludedSites"} ELSE Keys, s, e, m)

\* a loadState that does not take the morning query from the file
LoadStateWithoutQuery(f) ==
    IF f.kind = "json"
    THEN [sites |-> IF f.has[1] THEN f.sites ELSE <<>>,
          excludedSites |-> IF f.has[2] THEN f.excludedSites ELSE <<>>,
          morningQuery |-> DefaultMorningQuery]
    ELSE [sites |-> <<>>, excludedSites |-> <<>>,
          morningQuery |-> DefaultMorningQuery]

\* loadState: what state is after it, given the content of the state file
LoadState(f) ==
    IF f.kind = "json"
    THEN [sites |-> IF f.has[1] THEN f.sites ELSE <<>>,
          excludedSites |-> IF f.has[2] THEN f.excludedSites ELSE <<>>,
          morningQuery |-> IF f.has[3] THEN f.morningQuery ELSE UNDEFINED]
    ELSE [sites |-> <<>>, excludedSites |-> <<>>,
          morningQuery |-> DefaultMorningQuery]

\* a localStorage entry: getItem gives null, or the stored string, which is
\* the JSON text of a list, text that JSON.parse rejects, or a raw string
NullItem == [kind |-> "null", val |-> <<>>]
BadItem == [kind |-> "malformed", val |-> <<>>]
RawItem(text) == [kind |-> "raw", val |-> text]

\* JSON.stringify(list)
StringifyList(list) == [kind |-> "json", val |-> list]

\* savedSites ? JSON.parse(savedSites) : []   (ok = FALSE: JSON.parse threw)
ParseListItem(item) ==
    IF item.kind = "null" \/ (item.kind = "raw" /\ item.val = <<>>)
    THEN [ok |-> TRUE, val |-> <<>>]
    ELSE IF item.kind = "json" THEN [ok |-> TRUE, val |-> item.val]
    ELSE [ok |-> FALSE, val |-> <<>>]

\* localStorage.getItem('scraper-morning-query') || '<default>'
ParseMorningItem(item) ==
    IF item.kind = "null" \/ item.val = <<>> THEN DefaultMorningQuery
    ELSE item.val

\* the three persistence effects
StoreAll(s, e, m) ==
    [sites |-> StringifyList(s), excludedSites |-> StringifyList(e),
     morningQuery |-> RawItem(m)]

NoStorage == [sites |-> NullItem, excludedSites |-> NullItem,
              morningQuery |-> NullItem]

---------------------------------------------------------------------------
(* scrapeWithGrounding *)

AuthError ==
    "The provided API key is not valid. Please check your environment configuration."
OverloadError == "The model is currently overloaded. Please try again later."
UpstreamError == "Failed to fetch data from Gemini API."
FallbackError == "Failed to fetch data from Gemini API after multiple retries."

\* what a failed generateContent call throws: its status, whether it is an
\* Error instance, whether its message includes 'API key not valid'
Statuses == {OVERLOADED, 400}
BackendErrors == [status : Statuses, isError : BOOLEAN, keyInvalid : BOOLEAN]

\* a site clause joined by spaces only
SiteSearchQuerySpaces(list) ==
    Join([i \in 1..Len(list) |-> <<"site:">> \o Trim(Text(list[i]))], <<SP>>)

\* sites.map(site => `site:${site.trim()}`).join(' OR ')
SiteSearchQuery(list) ==
    Join([i \in 1..Len(list) |-> <<"site:">> \o Trim(Text(list[i]))],
         <<SP, "OR", SP>>)

\* excludedSites.map(site => `-site:${site.trim()}`).join(' ')
ExcludeQuery(list) ==
    Join([i \in 1..Len(list) |-> <<"-site:">> \o Trim(Text(list[i]))], <<SP>>)

\* `${query} ${siteSearchQuery} ${excludeQuery}`.trim()
FullQuery(query, incl, excl) ==
    Trim(query \o <<SP>> \o SiteSearchQuery(incl) \o <<SP>> \o ExcludeQuery(excl))

\* a retry policy that also sleeps after the last attempt
ShouldRetryOnLast(e, i) == e.status = OVERLOADED /\ i < MAX_RETRIES

\* a retry policy that retries whatever the status
ShouldRetryAnyStatus(e, i) == i < MAX_RETRIES - 1

\* error?.status === 503 && i < MAX_RETRIES - 1
ShouldRetry(e, i) == e.status = OVERLOADED /\ i < MAX_RETRIES - 1

\* a catch block that tests the status before the message
ThrownOverloadFirst(e) ==
    IF e.status = OVERLOADED THEN OverloadError
    ELSE IF e.isError /\ e.keyInvalid THEN AuthError
    ELSE UpstreamError

\* the error the catch block throws when it does not retry
Thrown(e) ==
    IF e.isError /\ e.keyInvalid THEN AuthError
    ELSE IF e.status = OVERLOADED THEN OverloadError
    ELSE UpstreamError

\* a grounding chunk: web is absent, or has a uri (possibly empty) and a title
NoWeb == [web |-> FALSE, uri |-> "", title |-> ""]
Web(uri, title) == [web |-> TRUE, uri |-> uri, title |-> title]

\* .filter(web => !!web && !!web.uri).reduce(first occurrence of each uri)
RECURSIVE Reduce(_, _)
Reduce(acc, rest) ==
    IF rest = <<>> THEN acc
    ELSE IF \E j \in 1..Len(acc) : acc[j].uri = Head(rest).uri
         THEN Reduce(acc, Tail(rest))
         ELSE Reduce(Append(acc, Head(rest)), Tail(rest))

\* sources without the reduce: every entry that has a uri
SourcesKeepingAll(chunks) == SelectSeq(chunks, LAMBDA c : c.web /\ c.uri # "")

\* groundingChunks?.map(chunk => chunk.web).filter(...).reduce(...) || []
Sources(chunks) ==
    Reduce(<<>>, SelectSeq(chunks, LAMBDA c : c.web /\ c.uri # ""))

---------------------------------------------------------------------------
(* Input lines, output, and the records of what is in flight *)

Line(cmd, args) == [cmd |-> cmd, args |-> args]

\* the lines over the given argument tokens, with at most n arguments
LinesOver(toks, excl, qs, n) ==
    {Line(v, <<>>) :
        v \in {"help", "add-site", "list-sites", "remove-site", "clear-sites",
               "add-exclude", "list-excludes", "remove-exclude",
               "clear-excludes", "scrape", "set-morning-query",
               "scrape-morning", "clear", "exit", "frobnicate"}}
    \cup {Line("add-site", a) : a \in SeqsUpTo(toks, n)}
    \cup {Line("remove-site", <<t>>) : t \in toks}
    \cup {Line("add-exclude", a) : a \in SeqsUpTo(excl, n)}
    \cup {Line("remove-exclude", <<t>>) : t \in excl}
    \cup {Line("scrape", <<t>>) : t \in qs}
    \cup {Line("set-morning-query", <<t>>) : t \in qs}

\* what a command shows: the kind of message and the values it carries
Out(kind, p1, p2) == [kind |-> kind, p1 |-> p1, p2 |-> p2]

NoOut == Out("", <<>>, <<>>)

\* a HistoryItem; the terminal's last output is kept in the same shape
Item(l, out, busy) == [command |-> l, output |-> out, isProcessing |-> busy]

NoItem == Item(Line("", <<>>), NoOut, FALSE)

Usage(cmd) == Out("usage", <<cmd>>, <<>>)

NoSitesOut == Out("error: no priority sites", <<>>, <<>>)

ErrorOut(msg) == Out("error", <<msg>>, <<>>)

NoError == [status |-> 0, isError |-> FALSE, keyInvalid |-> FALSE]

\* nothing observed yet
NoScrape == [calls |-> 0, sleeps |-> <<>>, statuses |-> <<>>, last |-> NoError,
             sawInvalidKey |-> FALSE, outcome |-> "", chunks |-> <<>>,
             sources |-> <<>>]

Chunks == {NoWeb, Web("", "T"), Web("u", "T1"), Web("u", "T2"), Web("v", "T")}

Responses == SeqsUpTo(Chunks, MaxChunks)

\* an add that does not look the entry up in the list
AddedUnchecked(list, args) == args

\* the args.forEach of add-site / add-exclude
Added(list, args) == SelectSeq(args, LAMBDA x : ~Includes(list, x))

Duplicates(list, args) == SelectSeq(args, LAMBDA x : Includes(list, x))

\* the list a scrape in flight reads: the array it was given (cli: the very
\* array state holds, until state is given another array) or the value its
\* closure captured
IncSites(sc) == IF sc.incLive THEN sites ELSE sc.incVal

ExcSites(sc) == IF sc.excLive THEN excludedSites ELSE sc.excVal

\* scrapeWithGrounding(query, sites, excludedSites) up to its first await
NewScrape(l, query, morning) ==
    [line |-> l, query |-> query, morning |-> morning,
     incLive |-> variant = "cli",
     incVal |-> IF variant = "cli" THEN <<>> ELSE sites,
     excLive |-> variant = "cli",
     excVal |-> IF variant = "cli" THEN <<>> ELSE excludedSites,
     pc |-> "calling", i |-> 0, delay |-> INITIAL_DELAY,
     fullQuery |-> FullQuery(query, sites, excludedSites),
     calls |-> 1, sleeps |-> <<>>, statuses |-> <<>>,
     sawInvalidKey |-> FALSE]

\* state.sites = <another array>: the scrapes in flight keep the old array
DetachInc(scs) ==
    [k \in 1..Len(scs) |->
        IF scs[k].incLive
        THEN [scs[k] EXCEPT !.incLive = FALSE, !.incVal = sites]
        ELSE scs[k]]

DetachExc(scs) ==
    [k \in 1..Len(scs) |->
        IF scs[k].excLive
        THEN [scs[k] EXCEPT !.excLive = FALSE, !.excVal = excludedSites]
        ELSE scs[k]]

Remove(seq, k) == SubSeq(seq, 1, k - 1) \o SubSeq(seq, k + 1, Len(seq))

InFlight == Len(writes) + Len(scrapes)

---------------------------------------------------------------------------
(* cli.mjs: the processing animation *)

\* running: the setInterval timers that are drawing the spinner; held:
\* whether animationSpinner is one of them
NoSpinner == [running |-> 0, held |-> FALSE]

\* showProcessingAnimation: animationSpinner = setInterval(...)
ShowProcessingAnimation(sp) == [running |-> sp.running + 1, held |-> TRUE]

\* stopProcessingAnimation: clearInterval(animationSpinner)
StopProcessingAnimation(sp) ==
    IF sp.held THEN [running |-> sp.running - 1, held |-> FALSE] ELSE sp

---------------------------------------------------------------------------
(* cli.mjs: saveState and processCommand *)

\* saveState up to its await: JSON.stringify(state) is taken now, the write
\* is in flight; out is what the command prints after the await
StartWrite(s, e, m, out) ==
    Append([k \in 1..Len(writes) |-> [writes[k] EXCEPT !.raced = TRUE]],
           [content |-> StringifyState(s, e, m), raced |-> writes # <<>>,
            out |-> IF watch THEN out ELSE NoItem])

CliSay(l, out) ==
    /\ lastOut' = IF watch THEN Item(l, out, FALSE) ELSE lastOut
    /\ UNCHANGED <<variant, phase, sites, excludedSites, morningQuery, file,
                   localStorage, writes, scrapes, history, lastScrape, saved,
                   writeFailed, watch, spinner>>

CliSave(l, s, e, m, scs, out) ==
    /\ sites' = s
    /\ excludedSites' = e
    /\ morningQuery' = m
    /\ scrapes' = scs
    /\ writes' = StartWrite(s, e, m, Item(l, out, FALSE))
    /\ UNCHANGED <<variant, phase, file, localStorage, history, lastOut,
                   lastScrape, saved, writeFailed, watch, spinner>>

CliHelp(l) ==
    /\ l.cmd = "help"
    /\ CliSay(l, Out("help", <<>>, <<>>))

CliAddSite(l) ==
    /\ l.cmd = "add-site"
    /\ IF l.args # <<>>
       THEN LET added == Added(sites, l.args)
                duplicates == Duplicates(sites, l.args)
            IN  IF added # <<>>
                THEN /\ Len(sites) + Len(added) <= MaxList
                     /\ CliSave(l, sites \o added, excludedSites, morningQuery,
                                scrapes, Out("added", added, duplicates))
                ELSE CliSay(l, Out("added", <<>>, duplicates))
       ELSE CliSay(l, Usage("add-site"))

CliListSites(l) ==
    /\ l.cmd = "list-sites"
    /\ CliSay(l, Out("list", sites, <<>>))

CliRemoveSite(l) ==
    /\ l.cmd = "remove-site"
    /\ IF l.args # <<>>
       THEN LET siteToRemove == l.args[1]
            IN  IF Includes(sites, siteToRemove)
                THEN CliSave(l, Filter(sites, siteToRemove), excludedSites,
                             morningQuery, DetachInc(scrapes),
                             Out("removed", <<siteToRemove>>, <<>>))
                ELSE CliSay(l, Out("not found", <<siteToRemove>>, <<>>))
       ELSE CliSay(l, Usage("remove-site"))

CliClearSites(l) ==
    /\ l.cmd = "clear-sites"
    /\ IF Len(sites) > 0
       THEN CliSave(l, <<>>, excludedSites, morningQuery, DetachInc(scrapes),
                    Out("cleared", <<>>, <<>>))
       ELSE CliSay(l, Out("already empty", <<>>, <<>>))

CliAddExclude(l) ==
    /\ l.cmd = "add-exclude"
    /\ IF l.args # <<>>
       THEN LET added == Added(excludedSites, l.args)
                duplicates == Duplicates(excludedSites, l.args)
            IN  IF added # <<>>
                THEN /\ Len(excludedSites) + Len(added) <= MaxList
                     /\ CliSave(l, sites, excludedSites \o added, morningQuery,
                                scrapes, Out("excluded", added, duplicates))
                ELSE CliSay(l, Out("excluded", <<>>, duplicates))
       ELSE CliSay(l, Usage("add-exclude"))

CliListExcludes(l) ==
    /\ l.cmd = "list-excludes"
    /\ CliSay(l, Out("list excludes", excludedSites, <<>>))

CliRemoveExclude(l) ==
    /\ l.cmd = "remove-exclude"
    /\ IF l.args # <<>>
       THEN LET siteToRemove == l.args[1]
            IN  IF Includes(excludedSites, siteToRemove)
                THEN CliSave(l, sites, Filter(excludedSites, siteToRemove),
                             morningQuery, DetachExc(scrapes),
                             Out("exclude removed", <<siteToRemove>>, <<>>))
                ELSE CliSay(l, Out("exclude not found", <<siteToRemove>>, <<>>))
       ELSE CliSay(l, Usage("remove-exclude"))

CliClearExcludes(l) ==
    /\ l.cmd = "clear-excludes"
    /\ IF Len(excludedSites) > 0
       THEN CliSave(l, sites, <<>>, morningQuery, DetachExc(scrapes),
                    Out("excludes cleared", <<>>, <<>>))
       ELSE CliSay(l, Out("excludes already empty", <<>>, <<>>))

\* a set-morning-query that does not test its argument text
CliSetMorningQueryUnchecked(l) ==
    /\ l.cmd = "set-morning-query"
    /\ LET query == JoinArgs(l.args)
       IN  CliSave(l, sites, excludedSites, query, scrapes,
                   Out("morning query set", query, <<>>))

CliSetMorningQuery(l) ==
    /\ l.cmd = "set-morning-query"
    /\ LET query == JoinArgs(l.args)
       IN  IF Falsy(query)
           THEN CliSay(l, Usage("set-morning-query"))
           ELSE CliSave(l, sites, excludedSites, query, scrapes,
                        Out("morning query set", query, <<>>))

\* a scrape command that does not test the priority sites
CliScrapeUnguarded(l) ==
    /\ l.cmd \in {"scrape", "scrape-morning"}
    /\ LET isMorningScrape == l.cmd = "scrape-morning"
           query == IF isMorningScrape THEN morningQuery
                    ELSE JoinArgs(l.args)
       IN  IF Falsy(query)
           THEN CliSay(l, Usage("scrape"))
           ELSE /\ spinner.running <= MaxProcs
                /\ spinner' = ShowProcessingAnimation(spinner)
                /\ scrapes' = Append(scrapes,
                                     NewScrape(l, query, isMorningScrape))
                /\ UNCHANGED <<variant, phase, sites, excludedSites,
                               morningQuery, file, localStorage, writes,
                               history, lastOut, lastScrape, saved,
                               writeFailed, watch>>

CliScrape(l) ==
    /\ l.cmd \in {"scrape", "scrape-morning"}
    /\ IF Len(sites) = 0
       THEN CliSay(l, NoSitesOut)
       ELSE LET isMorningScrape == l.cmd = "scrape-morning"
                query == IF isMorningScrape THEN morningQuery
                         ELSE JoinArgs(l.args)
            IN  IF Falsy(query)
                THEN CliSay(l, Usage("scrape"))
                ELSE /\ spinner.running <= MaxProcs
                     /\ spinner' = ShowProcessingAnimation(spinner)
                     /\ scrapes' = Append(scrapes,
                                          NewScrape(l, query, isMorningScrape))
                     /\ UNCHANGED <<variant, phase, sites, excludedSites,
                                    morningQuery, file, localStorage, writes,
                                    history, lastOut, lastScrape, saved,
                                    writeFailed, watch>>

CliClear(l) ==
    /\ l.cmd = "clear"
    /\ CliSay(l, Out("welcome", <<>>, <<>>))

\* return true: rl.close(), then process.exit(0); a write still in flight
\* may or may not have reached the file
CliExit(l) ==
    /\ l.cmd = "exit"
    /\ phase' = "exited"
    /\ writes' = <<>>
    /\ scrapes' = <<>>
    /\ \E f \in {file} \cup {writes[k].content : k \in 1..Len(writes)}
               \cup (IF writes # <<>> THEN {MalformedFile} ELSE {}) :
          file' = f
    /\ spinner' = NoSpinner
    /\ UNCHANGED <<variant, sites, excludedSites, morningQuery, localStorage,
                   history, lastOut, lastScrape, saved, writeFailed, watch>>

CliDefault(l) ==
    /\ l.cmd = "frobnicate"
    /\ CliSay(l, Out("command not found", <<l.cmd>>, <<>>))

CliProcessCommand(l) ==
    \/ CliHelp(l)
    \/ CliAddSite(l)
    \/ CliListSites(l)
    \/ CliRemoveSite(l)
    \/ CliClearSites(l)
    \/ CliAddExclude(l)
    \/ CliListExcludes(l)
    \/ CliRemoveExclude(l)
    \/ CliClearExcludes(l)
    \/ CliSetMorningQuery(l)
    \/ CliScrape(l)
    \/ CliClear(l)
    \/ CliExit(l)
    \/ CliDefault(l)

---------------------------------------------------------------------------
(* Terminal.tsx: processCommand *)

\* prev.map(item => item.command === command
\*                    ? { ...item, output, isProcessing: false } : item)
FinishHistory(h, l, out) ==
    [n \in 1..Len(h) |->
        IF h[n].command = l THEN Item(h[n].command, out, FALSE) ELSE h[n]]

\* the persistence effects run for the values that changed
Effects(s, e, m) ==
    [sites |-> IF s # sites THEN StringifyList(s) ELSE localStorage.sites,
     excludedSites |-> IF e # excludedSites THEN StringifyList(e)
                       ELSE localStorage.excludedSites,
     morningQuery |-> IF m # morningQuery THEN RawItem(m)
                      ELSE localStorage.morningQuery]

\* a command without await: the entry is appended, the state setters run,
\* the entry gets its output
WebDo(l, s, e, m, out) ==
    /\ sites' = s
    /\ excludedSites' = e
    /\ morningQuery' = m
    /\ localStorage' = Effects(s, e, m)
    /\ history' = FinishHistory(Append(history, Item(l, NoOut, TRUE)), l, out)
    /\ UNCHANGED <<variant, phase, file, writes, scrapes, lastOut, lastScrape,
                   saved, writeFailed, watch, spinner>>

WebSay(l, out) == WebDo(l, sites, excludedSites, morningQuery, out)

WebStartScrape(l, query, morning) ==
    /\ scrapes' = Append(scrapes, NewScrape(l, query, morning))
    /\ history' = Append(history, Item(l, NoOut, TRUE))
    /\ UNCHANGED <<variant, phase, sites, excludedSites, morningQuery, file,
                   localStorage, writes, lastOut, lastScrape, saved,
                   writeFailed, watch, spinner>>

WebHelp(l) ==
    /\ l.cmd = "help"
    /\ WebSay(l, Out("help", <<>>, <<>>))

WebAddSite(l) ==
    /\ l.cmd = "add-site"
    /\ IF l.args # <<>>
       THEN LET added == Added(sites, l.args)
                duplicates == Duplicates(sites, l.args)
            IN  /\ Len(sites) + Len(added) <= MaxList
                /\ WebDo(l, IF added # <<>> THEN sites \o added ELSE sites,
                         excludedSites, morningQuery,
                         Out("added", added, duplicates))
       ELSE WebSay(l, Usage("add-site"))

WebListSites(l) ==
    /\ l.cmd = "list-sites"
    /\ WebSay(l, Out("list", sites, <<>>))

WebRemoveSite(l) ==
    /\ l.cmd = "remove-site"
    /\ IF l.args # <<>>
       THEN LET siteToRemove == l.args[1]
            IN  IF Includes(sites, siteToRemove)
                THEN WebDo(l, Filter(sites, siteToRemove), excludedSites,
                           morningQuery, Out("removed", <<siteToRemove>>, <<>>))
                ELSE WebSay(l, Out("not found", <<siteToRemove>>, <<>>))
       ELSE WebSay(l, Usage("remove-site"))

WebClearSites(l) ==
    /\ l.cmd = "clear-sites"
    /\ IF Len(sites) > 0
       THEN WebDo(l, <<>>, excludedSites, morningQuery,
                  Out("cleared", <<>>, <<>>))
       ELSE WebSay(l, Out("already empty", <<>>, <<>>))

WebAddExclude(l) ==
    /\ l.cmd = "add-exclude"
    /\ IF l.args # <<>>
       THEN LET added == Added(excludedSites, l.args)
                duplicates == Duplicates(excludedSites, l.args)
            IN  /\ Len(excludedSites) + Len(added) <= MaxList
                /\ WebDo(l, sites,
                         IF added # <<>> THEN excludedSites \o added
                         ELSE excludedSites,
                         morningQuery, Out("excluded", added, duplicates))
       ELSE WebSay(l, Usage("add-exclude"))

WebListExcludes(l) ==
    /\ l.cmd = "list-excludes"
    /\ WebSay(l, Out("list excludes", excludedSites, <<>>))

WebRemoveExclude(l) ==
    /\ l.cmd = "remove-exclude"
    /\ IF l.args # <<>>
       THEN LET siteToRemove == l.args[1]
            IN  IF Includes(excludedSites, siteToRemove)
                THEN WebDo(l, sites, Filter(excludedSites, siteToRemove),
                           morningQuery,
                           Out("exclude removed", <<siteToRemove>>, <<>>))
                ELSE WebSay(l, Out("exclude not found", <<siteToRemove>>, <<>>))
       ELSE WebSay(l, Usage("remove-exclude"))

WebClearExcludes(l) ==
    /\ l.cmd = "clear-excludes"
    /\ IF Len(excludedSites) > 0
       THEN WebDo(l, sites, <<>>, morningQuery,
                  Out("excludes cleared", <<>>, <<>>))
       ELSE WebSay(l, Out("excludes already empty", <<>>, <<>>))

WebScrape(l) ==
    /\ l.cmd = "scrape"
    /\ IF Len(sites) = 0
       THEN WebSay(l, NoSitesOut)
       ELSE LET query == JoinArgs(l.args)
            IN  IF Falsy(query)
                THEN WebSay(l, Usage("scrape"))
                ELSE WebStartScrape(l, query, FALSE)

WebSetMorningQuery(l) ==
    /\ l.cmd = "set-morning-query"
    /\ LET query == JoinArgs(l.args)
       IN  IF Falsy(query)
           THEN WebSay(l, Usage("set-morning-query"))
           ELSE WebDo(l, sites, excludedSites, query,
                      Out("morning query set", query, <<>>))

WebScrapeMorning(l) ==
    /\ l.cmd = "scrape-morning"
    /\ IF Len(sites) = 0
       THEN WebSay(l, NoSitesOut)
       ELSE WebStartScrape(l, morningQuery, TRUE)

\* setHistory([]); return
WebClear(l) ==
    /\ l.cmd = "clear"
    /\ history' = <<>>
    /\ UNCHANGED <<variant, phase, sites, excludedSites, morningQuery, file,
                   localStorage, writes, scrapes, lastOut, lastScrape, saved,
                   writeFailed, watch, spinner>>

WebDefault(l) ==
    /\ l.cmd \in {"exit", "frobnicate"}
    /\ WebSay(l, Out("command not found", <<l.cmd>>, <<>>))

WebProcessCommand(l) ==
    \/ WebHelp(l)
    \/ WebAddSite(l)
    \/ WebListSites(l)
    \/ WebRemoveSite(l)
    \/ WebClearSites(l)
    \/ WebAddExclude(l)
    \/ WebListExcludes(l)
    \/ WebRemoveExclude(l)
    \/ WebClearExcludes(l)
    \/ WebScrape(l)
    \/ WebSetMorningQuery(l)
    \/ WebScrapeMorning(l)
    \/ WebClear(l)
    \/ WebDefault(l)

---------------------------------------------------------------------------
(* Steps of what is in flight *)

\* a processCommand without try/catch around its await: an error of
\* scrapeWithGrounding takes the interpreter down
EndScrapeUncaught(k, last, outcome, chunks, sources) ==
    LET sc == scrapes[k]
        out == Out("result", sources, sc.query)
    IN  /\ scrapes' = Remove(scrapes, k)
        /\ phase' = IF outcome = "ok" THEN phase ELSE "crashed"
        /\ lastScrape' =
              IF watch
              THEN [calls |-> sc.calls, sleeps |-> sc.sleeps,
                    statuses |-> IF last = NoError THEN sc.statuses
                                 ELSE Append(sc.statuses, last.status),
                    last |-> last,
                    sawInvalidKey |-> sc.sawInvalidKey \/ last.keyInvalid,
                    outcome |-> outcome, chunks |-> chunks,
                    sources |-> sources]
              ELSE lastScrape
        /\ IF outcome # "ok"
           THEN UNCHANGED <<lastOut, history, spinner>>
           ELSE IF variant = "cli"
           THEN /\ lastOut' = (IF watch THEN Item(sc.line, out, FALSE)
                               ELSE lastOut)
                /\ spinner' = StopProcessingAnimation(spinner)
                /\ UNCHANGED history
           ELSE /\ history' = FinishHistory(history, sc.line, out)
                /\ UNCHANGED <<lastOut, spinner>>
        /\ UNCHANGED <<variant, sites, excludedSites, morningQuery,
                       file, localStorage, writes, saved, writeFailed, watch>>

\* scrapeWithGrounding returns or throws; processCommand goes on after its
\* await: the terminal prints the result or the error, the browser sets the
\* output of the history entries of that command
EndScrape(k, last, outcome, chunks, sources) ==
    LET sc == scrapes[k]
        out == IF outcome = "ok" THEN Out("result", sources, sc.query)
               ELSE ErrorOut(outcome)
    IN  /\ scrapes' = Remove(scrapes, k)
        /\ lastScrape' =
              IF watch
              THEN [calls |-> sc.calls, sleeps |-> sc.sleeps,
                    statuses |-> IF last = NoError THEN sc.statuses
                                 ELSE Append(sc.statuses, last.status),
                    last |-> last,
                    sawInvalidKey |-> sc.sawInvalidKey \/ last.keyInvalid,
                    outcome |-> outcome, chunks |-> chunks,
                    sources |-> sources]
              ELSE lastScrape
        /\ IF variant = "cli"
           THEN /\ lastOut' = (IF watch THEN Item(sc.line, out, FALSE)
                               ELSE lastOut)
                /\ spinner' = StopProcessingAnimation(spinner)
                /\ UNCHANGED history
           ELSE /\ history' = FinishHistory(history, sc.line, out)
                /\ UNCHANGED <<lastOut, spinner>>
        /\ UNCHANGED <<variant, phase, sites, excludedSites, morningQuery,
                       file, localStorage, writes, saved, writeFailed, watch>>

\* generateContent resolves
BackendReturns(k, chunks) ==
    /\ scrapes[k].pc = "calling"
    /\ EndScrape(k, NoError, "ok", chunks, Sources(chunks))

\* generateContent rejects with e: the catch block
BackendFails(k, e) ==
    /\ scrapes[k].pc = "calling"
    /\ IF ShouldRetry(e, scrapes[k].i)
       THEN /\ scrapes' = [scrapes EXCEPT
                             ![k].pc = "sleeping",
                             ![k].sleeps = Append(@, scrapes[k].delay),
                             ![k].statuses = Append(@, e.status),
                             ![k].sawInvalidKey = @ \/ e.keyInvalid]
            /\ UNCHANGED <<variant, phase, sites, excludedSites, morningQuery,
                           file, localStorage, writes, history, lastOut,
                           lastScrape, saved, writeFailed, watch, spinner>>
       ELSE EndScrape(k, e, Thrown(e), <<>>, <<>>)

\* the setTimeout of the retry fires: delay *= 2; continue; i++; the next
\* iteration builds the query again and calls the backend
SleepElapses(k) ==
    /\ scrapes[k].pc = "sleeping"
    /\ IF scrapes[k].i + 1 < MAX_RETRIES
       THEN /\ scrapes' = [scrapes EXCEPT
                             ![k].pc = "calling",
                             ![k].i = @ + 1,
                             ![k].delay = @ * BACKOFF,
                             ![k].calls = @ + 1,
                             ![k].fullQuery =
                                 FullQuery(scrapes[k].query,
                                           IncSites(scrapes[k]),
                                           ExcSites(scrapes[k]))]
            /\ UNCHANGED <<variant, phase, sites, excludedSites, morningQuery,
                           file, localStorage, writes, history, lastOut,
                           lastScrape, saved, writeFailed, watch, spinner>>
       ELSE EndScrape(k, NoError, FallbackError, <<>>, <<>>)

\* what the file holds once a write has gone through: its content, or, when
\* another write of the same file overlapped it, possibly a mix of both
Written(w) == {w.content} \cup (IF w.raced THEN {MalformedFile} ELSE {})

\* fs.writeFile resolves; the command prints and ends
WriteDone(k) ==
    /\ \E f \in Written(writes[k]) : file' = f
    /\ saved' = TRUE
    /\ lastOut' = writes[k].out
    /\ writes' = Remove(writes, k)
    /\ UNCHANGED <<variant, phase, sites, excludedSites, morningQuery,
                   localStorage, scrapes, history, lastScrape, writeFailed,
                   watch, spinner>>

\* a failed save that puts the state back to what the file holds
WriteFailsRollingBack(k) ==
    /\ file' = file
    /\ writeFailed' = TRUE
    /\ lastOut' = writes[k].out
    /\ writes' = Remove(writes, k)
    /\ sites' = LoadState(file).sites
    /\ excludedSites' = LoadState(file).excludedSites
    /\ UNCHANGED <<variant, phase, morningQuery, localStorage, scrapes,
                   history, lastScrape, saved, watch, spinner>>

\* fs.writeFile rejects: saveState logs the error; the command prints and
\* ends as usual.  The file is as it was, or was truncated by the attempt
WriteFails(k) ==
    /\ \E f \in {file, MalformedFile} : file' = f
    /\ writeFailed' = TRUE
    /\ lastOut' = writes[k].out
    /\ writes' = Remove(writes, k)
    /\ UNCHANGED <<variant, phase, sites, excludedSites, morningQuery,
                   localStorage, scrapes, history, lastScrape, saved, watch,
                   spinner>>

---------------------------------------------------------------------------
(* Start-up *)

StartLists == {<<>>, <<"a">>}
StartQueries == {<<>>, <<"q">>}

StartFiles ==
    {MissingFile, MalformedFile}
    \cup {JsonFile(ks, s, e, m) :
            ks \in SUBSET Keys, s \in StartLists, e \in StartLists,
            m \in StartQueries}

StartItems == {NullItem, BadItem} \cup {StringifyList(s) : s \in StartLists}

StartStorages ==
    [sites : StartItems, excludedSites : StartItems,
     morningQuery : {NullItem} \cup {RawItem(m) : m \in StartQueries}]

\* main: await loadState()
CliBoot ==
    /\ variant = "cli"
    /\ phase = "boot"
    /\ phase' = "up"
    /\ sites' = LoadState(file).sites
    /\ excludedSites' = LoadState(file).excludedSites
    /\ morningQuery' = LoadState(file).morningQuery
    /\ UNCHANGED <<variant, file, localStorage, writes, scrapes, history,
                   lastOut, lastScrape, saved, writeFailed, watch, spinner>>

\* the first render of Terminal: the useState initialisers, then the
\* persistence effects; an initialiser that throws takes the component down
WebBoot ==
    /\ variant = "web"
    /\ phase = "boot"
    /\ LET s == ParseListItem(localStorage.sites)
           e == ParseListItem(localStorage.excludedSites)
           m == ParseMorningItem(localStorage.morningQuery)
       IN  IF s.ok /\ e.ok
           THEN /\ phase' = "up"
                /\ sites' = s.val
                /\ excludedSites' = e.val
                /\ morningQuery' = m
                /\ localStorage' = StoreAll(s.val, e.val, m)
           ELSE /\ phase' = "crashed"
                /\ UNCHANGED <<sites, excludedSites, morningQuery,
                               localStorage>>
    /\ UNCHANGED <<variant, file, writes, scrapes, history, lastOut,
                   lastScrape, saved, writeFailed, watch, spinner>>

\* node cli.mjs once more, after an exit: the module's state is the default
\* one again, the state file is as the last run left it
CliRestart ==
    /\ variant = "cli"
    /\ phase = "exited"
    /\ phase' = "boot"
    /\ sites' = <<>>
    /\ excludedSites' = <<>>
    /\ morningQuery' = DefaultMorningQuery
    /\ lastOut' = NoItem
    /\ lastScrape' = NoScrape
    /\ saved' = FALSE
    /\ writeFailed' = FALSE
    /\ UNCHANGED <<variant, file, localStorage, writes, scrapes, history,
                   watch, spinner>>

\* the page is loaded again: the component is built anew, localStorage is
\* as it was; what was in flight is gone with the old page
WebReload ==
    /\ variant = "web"
    /\ phase = "up"
    /\ phase' = "boot"
    /\ sites' = <<>>
    /\ excludedSites' = <<>>
    /\ morningQuery' = DefaultMorningQuery
    /\ history' = <<>>
    /\ scrapes' = <<>>
    /\ lastScrape' = NoScrape
    /\ UNCHANGED <<variant, file, localStorage, writes, lastOut, saved,
                   writeFailed, watch, spinner>>

\* rl.on('line', ...) / handleSubmit: a line is taken whenever it arrives.
\* ls are the lines tried; at most wcap writes and scap scrapes are let be
\* in flight
ReadLine(ls, wcap, scap) ==
    /\ phase = "up"
    /\ \E l \in ls :
          /\ \/ variant = "cli" /\ CliProcessCommand(l)
             \/ /\ variant = "web"
                /\ Len(history) < MaxHist \/ l.cmd = "clear"
                /\ WebProcessCommand(l)
          /\ Len(writes') <= wcap
          /\ Len(scrapes') <= scap

SomeResponses == {<<Web("u", "T1"), NoWeb, Web("u", "T2")>>}

SomeErrors ==
    {[status |-> OVERLOADED, isError |-> TRUE, keyInvalid |-> FALSE],
     [status |-> 400, isError |-> TRUE, keyInvalid |-> FALSE],
     [status |-> 400, isError |-> TRUE, keyInvalid |-> TRUE]}

Booting(vs, fs, ss, w) ==
    /\ variant \in vs
    /\ phase = "boot"
    /\ sites = <<>>
    /\ excludedSites = <<>>
    /\ morningQuery = DefaultMorningQuery
    /\ file \in IF variant = "cli" THEN fs ELSE {MissingFile}
    /\ localStorage \in IF variant = "web" THEN ss ELSE {NoStorage}
    /\ writes = <<>>
    /\ scrapes = <<>>
    /\ history = <<>>
    /\ lastOut = NoItem
    /\ lastScrape = NoScrape
    /\ saved = FALSE
    /\ writeFailed = FALSE
    /\ watch = w
    /\ spinner = NoSpinner

(* The interpreter with scrapes in flight *)

SomeLines == LinesOver({"a"}, {}, QueryTokens, 1)

Init == Booting({"cli", "web"}, {MissingFile}, {NoStorage}, FALSE)

Next ==
    \/ CliBoot
    \/ WebBoot
    \/ ReadLine(SomeLines, MaxProcs - 1, MaxProcs)
    \/ \E k \in 1..Len(writes) : WriteDone(k)
    \/ \E k \in 1..Len(writes) : WriteFails(k)
    \/ \E k \in 1..Len(scrapes), r \in SomeResponses : BackendReturns(k, r)
    \/ \E k \in 1..Len(scrapes), e \in SomeErrors : BackendFails(k, e)
    \/ \E k \in 1..Len(scrapes) : SleepElapses(k)

Spec == Init /\ [][Next]_vars

(* The interpreter editing and persisting the session state *)

EditLines == LinesOver(Tokens, ExclTokens, QueryTokens, MaxArgs)

InitEdit == Booting({"cli", "web"}, StartFiles, StartStorages, FALSE)

NextEdit ==
    \/ CliBoot
    \/ WebBoot
    \/ CliRestart
    \/ WebReload
    \/ ReadLine(EditLines, MaxProcs, 0)
    \/ \E k \in 1..Len(writes) : WriteDone(k)

SpecEdit == InitEdit /\ [][NextEdit]_vars

(* One invocation of scrapeWithGrounding, from its call to its end *)

InitScrape ==
    /\ variant \in {"cli", "web"}
    /\ phase = "up"
    /\ sites \in SeqsUpTo(Tokens \cup {Padded}, MaxList)
    /\ excludedSites \in SeqsUpTo(ExclTokens \cup {Padded}, MaxList)
    /\ morningQuery = DefaultMorningQuery
    /\ file = MissingFile
    /\ localStorage = IF variant = "web"
                      THEN StoreAll(sites, excludedSites, morningQuery)
                      ELSE NoStorage
    /\ writes = <<>>
    /\ \E l \in {Line("scrape", <<"q">>), Line("scrape-morning", <<>>)} :
          /\ scrapes = <<NewScrape(l, IF l.cmd = "scrape" THEN JoinArgs(l.args)
                                      ELSE morningQuery,
                                   l.cmd = "scrape-morning")>>
          /\ history = IF variant = "web" THEN <<Item(l, NoOut, TRUE)>>
                       ELSE <<>>
    /\ lastOut = NoItem
    /\ lastScrape = NoScrape
    /\ saved = FALSE
    /\ writeFailed = FALSE
    /\ watch = TRUE
    /\ spinner = IF variant = "cli" THEN ShowProcessingAnimation(NoSpinner)
                 ELSE NoSpinner

NextScrape ==
    \/ \E k \in 1..Len(scrapes), r \in Responses : BackendReturns(k, r)
    \/ \E k \in 1..Len(scrapes), e \in BackendErrors : BackendFails(k, e)
    \/ \E k \in 1..Len(scrapes) : SleepElapses(k)

SpecScrape == InitScrape /\ [][NextScrape]_vars

\* every backend call returns or fails in the end, every sleep elapses
SpecScrapeFair == SpecScrape /\ WF_vars(NextScrape)

(* The interpreter adding to its lists, its output observed *)

AddLines ==
    {l \in LinesOver(Tokens, Tokens, {}, MaxArgs) :
        l.cmd \in {"add-site", "add-exclude"}}

InitAdd ==
    /\ variant \in {"cli", "web"}
    /\ phase = "up"
    /\ sites \in SeqsUpTo(Tokens, MaxList)
    /\ excludedSites \in SeqsUpTo(Tokens, MaxList)
    /\ morningQuery = DefaultMorningQuery
    /\ file = IF variant = "cli"
              THEN StringifyState(sites, excludedSites, morningQuery)
              ELSE MissingFile
    /\ localStorage = IF variant = "web"
                      THEN StoreAll(sites, excludedSites, morningQuery)
                      ELSE NoStorage
    /\ writes = <<>>
    /\ scrapes = <<>>
    /\ history = <<>>
    /\ lastOut = NoItem
    /\ lastScrape = NoScrape
    /\ saved = FALSE
    /\ writeFailed = FALSE
    /\ watch = TRUE
    /\ spinner = NoSpinner

NextAdd ==
    \/ ReadLine(AddLines, MaxProcs, 0)
    \/ \E k \in 1..Len(writes) : WriteDone(k)

SpecAdd == InitAdd /\ [][NextAdd]_vars

(* The interpreter scraping while its priority sites come and go, its     *)
(* output observed                                                         *)

SiteLines ==
    {Line("add-site", <<"a">>), Line("remove-site", <<"a">>),
     Line("clear-sites", <<>>), Line("scrape", <<"q">>), Line("scrape", <<>>),
     Line("scrape-morning", <<>>)}

\* what an earlier session that added the site a has left behind
SavedFile == StringifyState(<<"a">>, <<>>, DefaultMorningQuery)

SavedStorage == StoreAll(<<"a">>, <<>>, DefaultMorningQuery)

InitSites ==
    Booting({"cli", "web"}, {MissingFile, SavedFile},
            {NoStorage, SavedStorage}, TRUE)

NextSites ==
    \/ CliBoot
    \/ WebBoot
    \/ ReadLine(SiteLines, MaxProcs - 1, MaxProcs)
    \/ \E k \in 1..Len(writes) : WriteDone(k)
    \/ \E k \in 1..Len(scrapes), r \in SomeResponses : BackendReturns(k, r)
    \/ \E k \in 1..Len(scrapes), e \in SomeErrors : BackendFails(k, e)
    \/ \E k \in 1..Len(scrapes) : SleepElapses(k)

SpecSites == InitSites /\ [][NextSites]_vars

(* The terminal whose saves may fail, its output observed *)

FailLines ==
    {Line("add-site", <<"a">>), Line("add-site", <<"b">>),
     Line("remove-site", <<"a">>), Line("clear-sites", <<>>),
     Line("list-sites", <<>>), Line("scrape", <<"q">>)}

InitFail == Booting({"cli"}, {MissingFile}, {NoStorage}, TRUE)

NextFail ==
    \/ CliBoot
    \/ ReadLine(FailLines, MaxProcs - 1, MaxProcs - 1)
    \/ \E k \in 1..Len(writes) : WriteDone(k)
    \/ \E k \in 1..Len(writes) : WriteFails(k)
    \/ \E k \in 1..Len(scrapes), r \in SomeResponses : BackendReturns(k, r)
    \/ \E k \in 1..Len(scrapes), e \in SomeErrors : BackendFails(k, e)
    \/ \E k \in 1..Len(scrapes) : SleepElapses(k)

SpecFail == InitFail /\ [][NextFail]_vars

(* The interpreter given lines without arguments and unknown verbs, its  *)
(* output observed                                                         *)

BareLines ==
    {Line(v, <<>>) :
        v \in {"add-site", "remove-site", "add-exclude", "remove-exclude",
               "set-morning-query", "scrape", "frobnicate", "exit",
               "clear-sites"}}
    \cup {Line("add-site", <<"a">>), Line("add-exclude", <<"a">>),
          Line("set-morning-query", <<"q">>)}

InitBare == Booting({"cli", "web"}, {MissingFile}, {NoStorage}, TRUE)

NextBare ==
    \/ CliBoot
    \/ WebBoot
    \/ ReadLine(BareLines, MaxProcs - 1, 0)
    \/ \E k \in 1..Len(writes) : WriteDone(k)

SpecBare == InitBare /\ [][NextBare]_vars

---------------------------------------------------------------------------
(* The retry policy (SpecScrape) *)

Ended == scrapes = <<>> /\ lastScrape.outcome # ""

Failed == Ended /\ lastScrape.outcome # "ok"

\* every backend call of the ended invocation failed with status 503
AllOverloaded ==
    /\ Failed
    /\ Len(lastScrape.statuses) = lastScrape.calls
    /\ \A n \in 1..Len(lastScrape.statuses) :
          lastScrape.statuses[n] = OVERLOADED

\* the ended invocation failed on its first call, with a status other than 503
FirstNotOverloaded ==
    /\ Failed
    /\ Len(lastScrape.statuses) = 1
    /\ lastScrape.statuses[1] # OVERLOADED

\* an invocation that goes on after a failed call had status 503 from it
NoRetryUnlessOverloaded ==
    \A k \in 1..Len(scrapes) :
        \A n \in 1..Len(scrapes[k].statuses) :
            scrapes[k].statuses[n] = OVERLOADED

\* C2 as stated: when every backend call fails with status 503, there are
\* exactly three calls, the sleeps are 1000 ms then 2000 ms, and the
\* invocation fails with OverloadError.
C2_AlwaysOverloadError ==
    AllOverloaded =>
        /\ lastScrape.calls = 3
        /\ lastScrape.sleeps = <<1000, 2000>>
        /\ lastScrape.outcome = OverloadError

\* C2 as amended: when every backend call fails with status 503, there are
\* exactly three calls and the sleeps are 1000 ms then 2000 ms (no sleep after
\* the third failure, no fourth call); the invocation fails with
\* OverloadError, unless the third failure is an Error whose message says the
\* API key is not valid, and then with AuthError.
C2_RetriesThenFails ==
    AllOverloaded =>
        /\ lastScrape.calls = 3
        /\ lastScrape.sleeps = <<1000, 2000>>
        /\ lastScrape.outcome =
              IF lastScrape.last.isError /\ lastScrape.last.keyInvalid
              THEN AuthError ELSE OverloadError

C2_Witness ==
    /\ AllOverloaded
    /\ lastScrape.calls = 3
    /\ lastScrape.outcome = OverloadError

\* C3 as stated: a failure with a status other than 503 on the first attempt
\* causes no sleep and no further call and surfaces as UpstreamError.
C3_AlwaysUpstreamError ==
    /\ NoRetryUnlessOverloaded
    /\ FirstNotOverloaded =>
          /\ lastScrape.calls = 1
          /\ lastScrape.sleeps = <<>>
          /\ lastScrape.outcome = UpstreamError

\* C3 as amended: a failure with a status other than 503 on the first attempt
\* causes no sleep and no further call and surfaces at once: as AuthError
\* when it is an Error whose message says the API key is not valid, as
\* UpstreamError otherwise.
C3_FailsAtOnce ==
    /\ NoRetryUnlessOverloaded
    /\ FirstNotOverloaded =>
          /\ lastScrape.calls = 1
          /\ lastScrape.sleeps = <<>>
          /\ lastScrape.outcome =
                IF lastScrape.last.isError /\ lastScrape.last.keyInvalid
                THEN AuthError ELSE UpstreamError

C3_Witness ==
    /\ FirstNotOverloaded
    /\ lastScrape.outcome = UpstreamError

\* C4 as stated: once a backend call has failed with a message saying the API
\* key is not valid, the invocation fails with AuthError, whatever the
\* attempt and the status.
C4_AlwaysAuthError ==
    (Ended /\ lastScrape.sawInvalidKey) => lastScrape.outcome = AuthError

\* C4 as amended: when the failure that ends the invocation (one that is not
\* retried: its status is not 503, or it is the third attempt) is an Error
\* whose message says the API key is not valid, the invocation fails with
\* AuthError, whatever the attempt and the status.
C4_AuthErrorWhenNotRetried ==
    (Failed /\ lastScrape.last.isError /\ lastScrape.last.keyInvalid)
        => lastScrape.outcome = AuthError

C4_Witness ==
    /\ Failed
    /\ lastScrape.last.isError
    /\ lastScrape.last.keyInvalid
    /\ lastScrape.last.status = OVERLOADED
    /\ lastScrape.calls = 3
    /\ lastScrape.outcome = AuthError

---------------------------------------------------------------------------
(* One command at a time (Spec) *)

\* C1: in no reachable state are two invocations of processCommand in
\* progress at once: at most one command is waiting for its save, for the
\* backend or for a retry delay.
C1_OneCommandAtATime == InFlight <= 1

---------------------------------------------------------------------------
(* What a step shows of the line it takes (specifications that watch) *)

Range(list) == {list[i] : i \in 1..Len(list)}

\* a step that takes an input line and shows its entry: the browser appends
\* the entry to its history; the terminal starts a save that prints when it
\* is done, or prints at once
Taken ==
    IF variant = "web" THEN Len(history') = Len(history) + 1
    ELSE \/ Len(writes') = Len(writes) + 1
         \/ writes' = writes /\ scrapes' = scrapes /\ lastOut' # lastOut

\* the entry of the line taken
Reported ==
    IF variant = "web" THEN history'[Len(history')]
    ELSE IF Len(writes') = Len(writes) + 1 THEN writes'[Len(writes')].out
    ELSE lastOut'

---------------------------------------------------------------------------
(* scrape without priority sites (SpecSites) *)

\* C5: a scrape or scrape-morning line taken while the priority-site list
\* is empty shows the fixed 'No priority sites to scrape' error and starts no
\* invocation of scrapeWithGrounding; an invocation starts only in a step
\* whose command saw at least one priority site.
C5_NoSitesNoBackend ==
    [][/\ (sites = <<>> /\ Taken
              /\ Reported.command.cmd \in {"scrape", "scrape-morning"})
          => /\ Reported.output = NoSitesOut
             /\ ~Reported.isProcessing
             /\ scrapes' = scrapes
       /\ Len(scrapes') > Len(scrapes) => sites # <<>>]_vars

C5_Witness ==
    /\ variant = "cli"
    /\ sites = <<>>
    /\ scrapes = <<>>
    /\ lastOut = Item(Line("scrape-morning", <<>>), NoSitesOut, FALSE)

---------------------------------------------------------------------------
(* add-site and add-exclude (SpecAdd) *)

\* the entries of args that are not in list, and those that are
Minus(args, list) == SelectSeq(args, LAMBDA x : x \notin Range(list))

Common(args, list) == SelectSeq(args, LAMBDA x : x \in Range(list))

\* C6: for every list L and arguments E given to add-site (likewise
\* add-exclude), the reported 'added' is the entries of E not in L, the
\* reported 'duplicates' is the entries of E in L, and the list afterwards
\* is L followed by 'added'; the other list is left alone.
C6_AddPartitions ==
    [][(Taken /\ Reported.command.args # <<>>) =>
          LET E == Reported.command.args
              out == Reported.output
          IN  /\ Reported.command.cmd = "add-site" =>
                    /\ out = Out("added", Minus(E, sites), Common(E, sites))
                    /\ sites' = sites \o out.p1
                    /\ excludedSites' = excludedSites
              /\ Reported.command.cmd = "add-exclude" =>
                    /\ out = Out("excluded", Minus(E, excludedSites),
                                 Common(E, excludedSites))
                    /\ excludedSites' = excludedSites \o out.p1
                    /\ sites' = sites]_vars

C6_Witness ==
    /\ variant = "cli"
    /\ writes = <<>>
    /\ sites = <<"a", "b">>
    /\ lastOut = Item(Line("add-site", <<"a", "b">>),
                      Out("added", <<"b">>, <<"a">>), FALSE)

---------------------------------------------------------------------------
(* The lists and their durable copies (SpecEdit) *)

NoDuplicates(list) ==
    \A i, j \in 1..Len(list) : list[i] = list[j] => i = j

\* C7: the priority-site list and the excluded-site list each hold no
\* string more than once, whatever the commands given.
C7_NoDuplicates ==
    phase = "up" => NoDuplicates(sites) /\ NoDuplicates(excludedSites)

Memory ==
    [sites |-> sites, excludedSites |-> excludedSites,
     morningQuery |-> morningQuery]

Defaults ==
    [sites |-> <<>>, excludedSites |-> <<>>,
     morningQuery |-> DefaultMorningQuery]

\* C8: when no write has failed and no command is in progress, the durable
\* copy (the state file once a save has been made, the three storage keys)
\* equals the sites, excludedSites and morningQuery in memory.
C8_DurableEqualsMemory ==
    (phase = "up" /\ InFlight = 0 /\ ~writeFailed) =>
        IF variant = "cli"
        THEN saved => file = StringifyState(sites, excludedSites, morningQuery)
        ELSE localStorage = StoreAll(sites, excludedSites, morningQuery)

\* what a restart loads from the saved copy of the state in memory
Reloaded ==
    IF variant = "cli"
    THEN LoadState(StringifyState(sites, excludedSites, morningQuery))
    ELSE LET st == StoreAll(sites, excludedSites, morningQuery)
         IN  [sites |-> ParseListItem(st.sites).val,
              excludedSites |-> ParseListItem(st.excludedSites).val,
              morningQuery |-> ParseMorningItem(st.morningQuery)]

ReloadFails ==
    /\ variant = "web"
    /\ LET st == StoreAll(sites, excludedSites, morningQuery)
       IN  ~ParseListItem(st.sites).ok \/ ~ParseListItem(st.excludedSites).ok

\* any lists, a morning query that is not empty
ValidState == ~Falsy(morningQuery)

C10_LoadingNeverFails ==
    [][phase = "boot" =>
          /\ phase' = "up"
          /\ (variant = "cli" /\ file.kind # "json") => Memory' = Defaults
          /\ variant = "web" =>
                /\ localStorage.sites.kind \in {"null", "malformed"}
                      => sites' = <<>>
                /\ localStorage.excludedSites.kind \in {"null", "malformed"}
                      => excludedSites' = <<>>
                /\ localStorage.morningQuery.kind = "null"
                      => morningQuery' = DefaultMorningQuery]_vars

---------------------------------------------------------------------------
(* Saves that fail (SpecFail) *)

\* C11: when the write of a save ends, failed or not, the state in memory
\* is as the command left it (nothing is rolled back), the command shows its
\* normal output, and the interpreter stays up; list-sites shows the sites
\* in memory and a scrape builds its query from them.
C11_FailedSaveKeepsMemory ==
    [][/\ (phase = "up" /\ Len(writes') < Len(writes)) =>
             /\ phase' = "up"
             /\ sites' = sites
             /\ excludedSites' = excludedSites
             /\ morningQuery' = morningQuery
             /\ \E k \in 1..Len(writes) :
                   /\ lastOut' = writes[k].out
                   /\ lastOut'.output.kind \in {"added", "removed", "cleared"}
       /\ (Taken /\ Reported.command.cmd = "list-sites") =>
             Reported.output = Out("list", sites, <<>>)
       /\ Len(scrapes') > Len(scrapes) =>
             scrapes'[Len(scrapes')].fullQuery =
                 <<"q", SP>> \o SiteSearchQuery(sites)]_vars

\* every save has failed, the file was never written, and list-sites shows
\* the site that was added
C11_Witness ==
    /\ writeFailed
    /\ ~saved
    /\ file = MissingFile
    /\ writes = <<>>
    /\ phase = "up"
    /\ sites = <<"a">>
    /\ lastOut = Item(Line("list-sites", <<>>), Out("list", <<"a">>, <<>>),
                      FALSE)

---------------------------------------------------------------------------
(* The processing indicator (Spec) *)

\* the terminal draws its spinner
SpinnerActive == variant = "cli" /\ spinner.running > 0

\* the browser shows the entry n as processing
EntryActive(n) == variant = "web" /\ history[n].isProcessing

\* C12: an indicator is active only while a scrape call is outstanding: a
\* drawn spinner or an entry shown as processing implies a scrape (of that
\* entry's command) in flight, and no indicator is active once every
\* issued scrape has returned.
C12_IndicatorOnlyWhileOutstanding ==
    phase = "up" =>
        /\ SpinnerActive => scrapes # <<>>
        /\ \A n \in 1..Len(history) :
              EntryActive(n) =>
                  \E k \in 1..Len(scrapes) : scrapes[k].line = history[n].command

---------------------------------------------------------------------------
(* Errors of scrapeWithGrounding (SpecSites) *)

OrchestratorErrors == {AuthError, OverloadError, UpstreamError}

\* C13: when a scrape or scrape-morning command ends in AuthError,
\* OverloadError or UpstreamError, the command shows one 'Error: ' line
\* with that message (the terminal prints it; the browser puts it in the
\* entry of the command, which stops processing), the session state and
\* its durable copy are unchanged by it, and the interpreter stays up.
C13_ErrorsAreShown ==
    [][\A k \in 1..Len(scrapes) :
          (scrapes' = Remove(scrapes, k)
              /\ lastScrape'.outcome \in OrchestratorErrors) =>
             LET shown == Item(scrapes[k].line, ErrorOut(lastScrape'.outcome),
                               FALSE)
             IN  /\ phase' = "up"
                 /\ sites' = sites
                 /\ excludedSites' = excludedSites
                 /\ morningQuery' = morningQuery
                 /\ file' = file
                 /\ localStorage' = localStorage
                 /\ variant = "cli" => lastOut' = shown
                 /\ variant = "web" =>
                       /\ Len(history') = Len(history)
                       /\ \E n \in 1..Len(history) :
                             history[n].isProcessing /\ history'[n] = shown]_vars

\* after a scrape has ended in AuthError the terminal has taken the line
\* add-site a and answered it
C13_Witness ==
    /\ variant = "cli"
    /\ phase = "up"
    /\ scrapes = <<>>
    /\ lastScrape.outcome = AuthError
    /\ lastOut = Item(Line("add-site", <<"a">>),
                      Out("added", <<>>, <<"a">>), FALSE)

---------------------------------------------------------------------------
(* Unknown verbs and missing arguments (SpecBare) *)

NeedsArgs ==
    {"add-site", "remove-site", "add-exclude", "remove-exclude",
     "set-morning-query", "scrape"}

\* the line taken has an unknown verb, or a verb that needs arguments and
\* none
BareTaken ==
    /\ Taken
    /\ Reported.command.args = <<>>
    /\ \/ Reported.command.cmd \in NeedsArgs \cup {"frobnicate"}
       \/ variant = "web" /\ Reported.command.cmd = "exit"

\* the line taken changes nothing but what is shown
NothingElseDone ==
    /\ ~Reported.isProcessing
    /\ sites' = sites
    /\ excludedSites' = excludedSites
    /\ morningQuery' = morningQuery
    /\ file' = file
    /\ localStorage' = localStorage
    /\ writes' = writes
    /\ scrapes' = scrapes

\* C14 as stated: a line with an unknown verb, or with a verb that needs
\* arguments and has none, shows only the 'Command not found' or the usage
\* message, leaves sites, excludedSites and morningQuery unchanged, writes
\* nothing to durable storage and makes no backend call.
C14_OnlyUsageOrNotFound ==
    [][BareTaken =>
          /\ NothingElseDone
          /\ Reported.output =
                IF Reported.command.cmd \in NeedsArgs
                THEN Usage(Reported.command.cmd)
                ELSE Out("command not found", <<Reported.command.cmd>>, <<>>)]_vars

\* C14 as amended: such a line shows only the 'Command not found' or the
\* usage message, except that scrape without arguments shows the 'No
\* priority sites' error when the priority-site list is empty; in every case
\* it leaves sites, excludedSites and morningQuery unchanged, writes
\* nothing to durable storage and makes no backend call.
C14_UsageNotFoundOrNoSites ==
    [][BareTaken =>
          /\ NothingElseDone
          /\ Reported.output =
                IF Reported.command.cmd = "scrape" /\ sites = <<>>
                THEN NoSitesOut
                ELSE IF Reported.command.cmd \in NeedsArgs
                THEN Usage(Reported.command.cmd)
                ELSE Out("command not found", <<Reported.command.cmd>>, <<>>)]_vars

C14_Witness ==
    /\ variant = "cli"
    /\ sites = <<"a">>
    /\ excludedSites = <<"a">>
    /\ morningQuery = <<"q">>
    /\ writes = <<>>
    /\ file = StringifyState(sites, excludedSites, morningQuery)
    /\ lastOut = Item(Line("scrape", <<>>), Usage("scrape"), FALSE)

---------------------------------------------------------------------------
(* The sources of a result (SpecScrape) *)

HasUri(c) == c.web /\ c.uri # ""

\* the place of the first entry of chunks that has the uri
FirstWith(chunks, uri) ==
    CHOOSE i \in 1..Len(chunks) :
        /\ HasUri(chunks[i]) /\ chunks[i].uri = uri
        /\ \A j \in 1..(i - 1) : ~(HasUri(chunks[j]) /\ chunks[j].uri = uri)

\* C15: the sources of a result are the entries of the backend's citation
\* sequence that have a URI, each URI once: every URI of the sequence is
\* among the sources, each source is the first entry with its URI (its
\* title is kept), and the sources are in the order of these first entries.
C15_SourcesAreFirstOccurrences ==
    (Ended /\ lastScrape.outcome = "ok") =>
        LET chunks == lastScrape.chunks
            sources == lastScrape.sources
        IN  /\ \A i \in 1..Len(chunks) :
                  HasUri(chunks[i]) =>
                      \E j \in 1..Len(sources) : sources[j].uri = chunks[i].uri
            /\ \A j \in 1..Len(sources) :
                  /\ \E i \in 1..Len(chunks) :
                        HasUri(chunks[i]) /\ chunks[i].uri = sources[j].uri
                  /\ sources[j] = chunks[FirstWith(chunks, sources[j].uri)]
            /\ \A j1, j2 \in 1..Len(sources) :
                  j1 < j2 => FirstWith(chunks, sources[j1].uri)
                                < FirstWith(chunks, sources[j2].uri)

C15_Witness ==
    /\ Ended
    /\ lastScrape.outcome = "ok"
    /\ lastScrape.chunks = <<Web("u", "T1"), Web("v", "T"), Web("u", "T2")>>
    /\ lastScrape.sources = <<Web("u", "T1"), Web("v", "T")>>

---------------------------------------------------------------------------
(* The scoped query (SpecScrape) *)

\* the clauses of the given site texts, each the prefix followed by the
\* text, with sep between them
RECURSIVE Clauses(_, _, _)
Clauses(texts, prefix, sep) ==
    IF texts = <<>> THEN <<>>
    ELSE <<prefix>> \o texts[1]
         \o (IF Len(texts) = 1 THEN <<>>
             ELSE sep \o Clauses(Tail(texts), prefix, sep))

Scoped(query, inclTexts, exclTexts) ==
    Trim(query \o <<SP>> \o Clauses(inclTexts, "site:", <<SP, "OR", SP>>)
         \o <<SP>> \o Clauses(exclTexts, "-site:", <<SP>>))

\* the sites as they are, and with their surrounding white space removed
AsIs(list) == [i \in 1..Len(list) |-> Text(list[i])]

Trimmed(list) == [i \in 1..Len(list) |-> Trim(Text(list[i]))]

\* C16 as stated: the query submitted is the query, a space, the 'site:<s>'
\* tokens of the include sites joined by ' OR ' in list order, a space, the
\* '-site:<s>' tokens of the exclude sites joined by single spaces in list
\* order, trimmed; with an empty include list the site clause is empty.
C16_ScopedQuery ==
    \A k \in 1..Len(scrapes) :
        scrapes[k].pc = "calling" =>
            scrapes[k].fullQuery =
                Scoped(scrapes[k].query, AsIs(sites), AsIs(excludedSites))

\* C16 as amended: the same, each <s> being the site with its surrounding
\* white space removed.
C16_ScopedQueryOfTrimmedSites ==
    \A k \in 1..Len(scrapes) :
        scrapes[k].pc = "calling" =>
            scrapes[k].fullQuery =
                Scoped(scrapes[k].query, Trimmed(sites),
                       Trimmed(excludedSites))

\* the third call of an invocation for q with two include sites and one
\* exclude site
C16_Witness ==
    /\ scrapes # <<>>
    /\ scrapes[1].pc = "calling"
    /\ scrapes[1].calls = 3
    /\ sites = <<"a", "b">>
    /\ excludedSites = <<"a">>
    /\ scrapes[1].fullQuery =
          <<"q", SP, "site:", "a", SP, "OR", SP, "site:", "b", SP,
            "-site:", "a">>

---------------------------------------------------------------------------
(* The query of the attempts of one invocation (SpecFail) *)

\* C17: every attempt of one invocation submits the same scoped query,
\* whatever lines are taken while it waits for the backend or for a retry
\* delay; and a step of the invocation itself leaves sites, excludedSites
\* and morningQuery as they are.
C17_SameQueryEveryAttempt ==
    [][/\ Len(scrapes') >= Len(scrapes) =>
             \A k \in 1..Len(scrapes) :
                 scrapes'[k].fullQuery = scrapes[k].fullQuery
       /\ (\/ Len(scrapes') < Len(scrapes)
           \/ /\ Len(scrapes') = Len(scrapes)
              /\ \E k \in 1..Len(scrapes) : scrapes'[k].pc # scrapes[k].pc) =>
             /\ sites' = sites
             /\ excludedSites' = excludedSites
             /\ morningQuery' = morningQuery]_vars

---------------------------------------------------------------------------
(* The morning query (SpecEdit) *)

\* C18: the morning query is a non-empty string in every state of a
\* running interpreter, whatever storage content was loaded and whatever
\* commands were given.
C18_MorningQueryNonEmpty == phase = "up" => ~Falsy(morningQuery)

---------------------------------------------------------------------------
(* Termination of scrapeWithGrounding (SpecScrapeFair) *)

\* the invocation has ended with a result or with one of the three errors,
\* after at most MAX_RETRIES backend calls
EndedWell ==
    /\ Ended
    /\ lastScrape.outcome \in {"ok"} \cup OrchestratorErrors
    /\ lastScrape.calls <= MAX_RETRIES

\* C19: when every backend call returns or fails and every retry sleep
\* elapses, the invocation ends, with a result or with AuthError,
\* OverloadError or UpstreamError, after at most three backend calls; the
\* fallback error after the loop is never the outcome, and no invocation in
\* flight makes a fourth call.
C19_EveryInvocationEnds ==
    /\ <>[]EndedWell
    /\ [](lastScrape.outcome # FallbackError)
    /\ [](\A k \in 1..Len(scrapes) : scrapes[k].calls <= MAX_RETRIES)

\* an invocation that ended with a result from its third call
C19_Witness ==
    /\ Ended
    /\ lastScrape.outcome = "ok"
    /\ lastScrape.calls = MAX_RETRIES
    /\ lastScrape.sleeps = <<INITIAL_DELAY, INITIAL_DELAY * BACKOFF>>

---------------------------------------------------------------------------
(* The history of the browser terminal (Spec) *)

\* the entries already in the history that a step changes
Rewritten ==
    {n \in 1..Len(history) : n <= Len(history') /\ history'[n] # history[n]}

\* C20: in the browser, a step that appends the entry of a new command
\* leaves every entry that was already there as it was, and a step that
\* completes a running command changes one entry at most, an entry that was
\* still processing: entries of other commands, with the same command text
\* or not, keep their output and their processing flag.
C20_OnlyOwnEntryChanges ==
    [][variant = "web" =>
          /\ Len(history') > Len(history) => Rewritten = {}
          /\ Len(history') = Len(history) =>
                 /\ Cardinality(Rewritten) <= 1
                 /\ \A n \in Rewritten : history[n].isProcessing]_vars

====
